---- MODULE Spec2Model ----
(***************************************************************************)
(* The scrape-to-store ingestion pipeline of rag-api:                      *)
(*   scripts/helper.py               insert_papers_to_db (persist)         *)
(*   scripts/generate_embeddings.py  the embedding backfill loop           *)
(*   scripts/arxiv_scraper.py        Scraper._fetch_page under             *)
(*   scripts/gscholar_scraper.py     retrying.retry; main and the scrapes  *)
(*   main.py                         retreive_relevant_docs                *)
(*                                                                         *)
(* A Python str is modelled by its sequence of whitespace-delimited words. *)
(* A word is an integer: n > 0 is a plain word; -n is a word holding a     *)
(* code point UTF-8 cannot encode (a lone surrogate, as a lossy PDF        *)
(* extraction leaves them); 1000000 + n is what encode("utf-8", "replace") *)
(* makes of -n, the same word with "?" in place of that code point.        *)
(***************************************************************************)
EXTENDS Integers, Sequences, FiniteSets, TLC

VARIABLES
    table,      \* the papers table: the sequence of committed rows
    ppc,        \* insert_papers_to_db, per writer: "idle" or "insert"
    ppapers,    \* the papers argument of the writer's call (<<>> between calls)
    pdata,      \* the data tuples execute_values has still to send
    ppending,   \* rows the writer's open transaction has inserted
    poutcome,   \* how the writer's last call ended: "none", what it printed
                \* ("Commit successful", "Commit failed: <exception>"), or
                \* "raised: <exception>" when an exception left the call
    calls,      \* number of insert_papers_to_db calls started
    persisted,  \* the papers arguments of the calls that committed
    bpc,        \* generate_embeddings.main, per run: "idle" (not started),
                \* "fetch", "embed", "update", "done"
    cursor,     \* rows of the run's SELECT that fetchmany has not returned yet
    papers,     \* the batch fetch_papers returned (<<>> once it is written back)
    embeds,     \* the vectors create_embeddings returned for the batch
    writes,     \* per (link, chunk_num): how many times its embedding was written
    fpc,        \* Scraper._fetch_page under retrying.retry: "idle", "attempt"
                \* (in retrying's loop), "returned", "raised"
    fargs,      \* the scraper class, url and is_pdf of the call
    attempt_number, \* retrying's attempt counter
    requests,   \* outbound requests.get calls made by the current call
    history,    \* the outcomes of the attempts of the current call
    fresult,    \* what the call handed to its caller
    cpc,        \* chunking of one paper: "idle", "ready", "chunked"
    cin,        \* the content of the paper
    cout,       \* the list `chunks` insert_papers_to_db makes of it
    cdata,      \* the tuples the paper adds to `data`
    rpc,        \* main.retreive_relevant_docs: "idle", "loop", "returned"
    rstore,     \* the rows of the table the retrieval reads
    rn,         \* the argument n
    docs_,      \* cur.fetchall(): the rows of the SELECT, in its order
    ri,         \* how many rows of docs_ the for loop has taken
    docs,       \* the list the call builds and returns
    count_words, \* the running count of the loop
    jkind,      \* the job: "arxiv", "gscholar" (the scrape jobs) or "embed"
    env,        \* os.environ: the job's RUN_ variable and ARXIV_TABLE, each
                \* <<>> when unset and <<value>> when set
    jpc,        \* main: "start", "listing", "batch", "content", "persist",
                \* "cursor", "embedloop", "done" (returned), "crashed" (an
                \* exception left main)
    jerror,     \* the exception that left main
    todo,       \* the tasks of the running pool that have not ended, in the
                \* order they were handed in (for the embed job: the rows
                \* of the cursor not fetched yet)
    failed,     \* the tasks of the job that ended with an exception
    found,      \* the paper references the listing phase has gathered
    batch_i,    \* the loop variable i of main
    scanned_papers, \* the papers the content phase of the batch has gathered
    batch_log,  \* how the persist call of each batch so far has ended
    committed,  \* the papers whose rows this job has committed to the store
    effects,    \* what the job has done so far: page fetches, store
                \* connections, provider calls, committed writes
    tpc,        \* truncate_docs: "idle", "call" (in a call), "returned"
    tdoc,       \* the words of the document the outermost call was given
    tcur,       \* the words of the argument of the innermost call
    tpasses,    \* how many times the else branch has run
    lpc,        \* SearchScraper._parse_html: "idle", "returned", "raised"
    lkind,      \* the scraper whose _parse_html runs
    lpage,      \* the result cards of the html, in document order
    lpapers,    \* the list _parse_html returned
    lerror,     \* the exception that left _parse_html
    xpc,        \* the text loop of _fetch_paper_content: "idle", "returned"
    xkind,      \* the scraper whose _fetch_paper_content runs
    xpdf,       \* reader.pages: what extract_text() gives for each page
    xtext,      \* paper.content of the returned paper
    qpc,        \* a scrape method: "idle", "running", "returned", "raised"
    qcalls,     \* scrape calls started, one after the other
    qkind,      \* "listing" (ArxivScraper.scrape) or "content" (PaperScraper.scrape)
    qmax,       \* the argument max_processes: <<>> for None, else <<n>>
    qtasks,     \* the urls or papers handed to imap_unordered
    qwaiting,   \* the tasks no worker has taken yet, in the order handed in
    qrunning,   \* the tasks the workers are executing
    qdone,      \* the tasks whose result the iterator has yielded, in that
                \* order, each with the number of papers of its result
    qreturn,    \* the list the call returned
    qworkers,   \* live worker processes of the pools created so far
    hpc,        \* Example.get: "idle", "session" (inside the with block),
                \* "handler" (the body has raised), "presentation" (back in
                \* get), "responded"
    hid,        \* the example_id of the request
    hrows,      \* the ids of the rows of the examples table
    hbody,      \* the exception the body of the with block raised
    hraised,    \* the exception that left get_example_by_id
    hsession,   \* the session: whether it is open, its commits and rollbacks
    hstatus     \* the status of the response (0: none yet)

storeVars == <<table, ppc, ppapers, pdata, ppending, poutcome, calls, persisted>>
fillVars  == <<bpc, cursor, papers, embeds, writes>>
fetchVars == <<fpc, fargs, attempt_number, requests, history, fresult>>
chunkVars == <<cpc, cin, cout, cdata>>
retrVars  == <<rpc, rstore, rn, docs_, ri, docs, count_words>>
jobVars   == <<jkind, env, jpc, jerror, todo, failed, found, batch_i, scanned_papers,
               batch_log, committed, effects>>
truncVars == <<tpc, tdoc, tcur, tpasses>>
parseVars == <<lpc, lkind, lpage, lpapers, lerror>>
extractVars == <<xpc, xkind, xpdf, xtext>>
poolVars  == <<qpc, qcalls, qkind, qmax, qtasks, qwaiting, qrunning, qdone, qreturn,
               qworkers>>
crudVars  == <<hpc, hid, hrows, hbody, hraised, hsession, hstatus>>
moreVars  == <<poolVars, crudVars>>
pureVars  == <<truncVars, parseVars, extractVars>>
textVars  == <<pureVars, moreVars>>
progVars  == <<storeVars, fillVars, fetchVars, chunkVars, retrVars, jobVars>>
restVars  == <<retrVars, jobVars, textVars>>
vars == <<storeVars, fillVars, fetchVars, chunkVars, restVars>>

(***************************************************************************)
(* Bounds of the model.                                                    *)
(***************************************************************************)
MaxPersistCalls == 2    \* insert_papers_to_db calls in one behaviour
CHUNKSIZE == 2          \* rows per fetchmany (main passes 500; scaled down)
MaxWords == 2001        \* longest content given to the chunking alone
MaxN == 5               \* largest n given to retreive_relevant_docs
MaxPages == 3           \* listing pages of the arxiv job (main passes 4)
PerPage == 2            \* most paper references on one listing page
DB_INSERT_CHUNK == 2    \* papers per batch of main (the code has 100)
MaxCards == 3           \* most result cards on the page given to _parse_html
MaxPdfPages == 2        \* most pages of the PDF given to _fetch_paper_content
MaxPageChars == 2       \* most characters extract_text() gives for one page
MaxScrapes == 2         \* scrape calls of one process, one after the other
MaxTasks == 3           \* most urls or papers handed to one scrape call
MaxProcs == 3           \* largest max_processes a scrape call is given
CpuCount == 2           \* mp.cpu_count() of the machine
MaxIds == 3             \* largest id of the examples table

Writers == {"w1", "w2"}
Runs == {"r1", "r2"}

(***************************************************************************)
(* Text.                                                                   *)
(***************************************************************************)
chunk_size == 1000

NULL == <<>>

Min(a, b) == IF a < b THEN a ELSE b

\* n plain words, all different
PlainWords(n) == [i \in 1..n |-> i]

\* str.encode("utf-8", "replace").decode("utf-8") on one word: a code point
\* that cannot be encoded becomes "?"
EncodeWord(w) == IF w < 0 THEN 1000000 - w ELSE w

\* a slice that runs one word into the next chunk
SliceOneTooFar(tokens, i) == SubSeq(tokens, i + 1, Min(i + chunk_size + 1, Len(tokens)))

\* tokens[i : i + chunk_size], i counted from 0
Slice(tokens, i) == SubSeq(tokens, i + 1, Min(i + chunk_size, Len(tokens)))

\* " ".join(...).encode("utf-8", "replace").decode("utf-8")
EncodeChunk(ws) == [k \in 1..Len(ws) |-> EncodeWord(ws[k])]

\* range(0, len(tokens), chunk_size) has ceil(len / chunk_size) members
RangeLen(n) == (n + chunk_size - 1) \div chunk_size

\* the list `chunks` of one paper
Chunks(content) ==
    [c \in 1..RangeLen(Len(content)) |-> EncodeChunk(Slice(content, (c - 1) * chunk_size))]

\* the tuples of one paper numbered from 1, as enumerate(chunks, 1) would
PaperDataFromOne(paper) ==
    LET chunks == Chunks(paper.content)
    IN  [c \in 1..Len(chunks) |->
            [title |-> paper.title, link |-> paper.link, authors |-> paper.authors,
             content |-> chunks[c], chunk_num |-> c]]

\* the tuples one paper adds to `data`: chunk_num is enumerate's index
PaperData(paper) ==
    LET chunks == Chunks(paper.content)
    IN  [c \in 1..Len(chunks) |->
            [title |-> paper.title, link |-> paper.link, authors |-> paper.authors,
             content |-> chunks[c], chunk_num |-> c - 1]]

RECURSIVE PrepareData(_)
PrepareData(ps) ==
    IF ps = <<>> THEN <<>> ELSE PaperData(Head(ps)) \o PrepareData(Tail(ps))

(***************************************************************************)
(* The papers the scrape hands to persist.                                 *)
(***************************************************************************)
Title(n) == <<100 + n>>
Authors(n) == <<200 + n>>

\* a long paper: two chunks
PaperA == [title |-> Title(1), link |-> "a", authors |-> Authors(1),
           content |-> PlainWords(chunk_size + 1)]
\* the same link scraped again with another text
PaperA2 == [title |-> Title(2), link |-> "a", authors |-> Authors(1),
            content |-> <<7>>]
\* a short paper whose extraction left an unencodable code point
PaperB == [title |-> Title(3), link |-> "b", authors |-> Authors(2),
           content |-> <<1, -2>>]
\* a paper whose content is empty
PaperE == [title |-> Title(4), link |-> "e", authors |-> Authors(2), content |-> <<>>]

Papers == {PaperA, PaperA2, PaperB, PaperE}

\* the papers arguments of insert_papers_to_db: one paper, a batch with an
\* empty paper, a batch listing a paper twice, a re-scrape of a stored link
PersistInputs == {<<PaperA>>, <<PaperE, PaperB>>, <<PaperB, PaperB>>, <<PaperA2, PaperB>>}

(***************************************************************************)
(* insert_papers_to_db                                                     *)
(***************************************************************************)
Key(r) == <<r.link, r.chunk_num>>

\* every (link, chunk_num) the papers of the model can produce
KeySpace == UNION {{Key(PaperData(p)[c]) : c \in 1..Len(PaperData(p))} : p \in Papers}

Keys(rows) == {Key(rows[i]) : i \in 1..Len(rows)}

\* a row whose embedding column defaults to a vector
RowWithZeroVector(d) == [title |-> d.title, link |-> d.link, authors |-> d.authors,
                         content |-> d.content, chunk_num |-> d.chunk_num,
                         embedding |-> <<0>>]

\* the row INSERT INTO t (title, link, authors, content, chunk_num) makes:
\* the embedding column is not named and takes its default
NewRow(d) == [title |-> d.title, link |-> d.link, authors |-> d.authors,
              content |-> d.content, chunk_num |-> d.chunk_num, embedding |-> NULL]

\* the unique index on (link, chunk_num) finds a row with the key of d
ConflictsWith(d, rows) == Key(d) \in Keys(rows)

\* a table without the unique index: every tuple is inserted
InsertAlways(d, rows) == "insert"

\* a plain INSERT, as utils.insert_papers_to_db sends: the index raises
InsertOrRaise(d, rows) == IF ConflictsWith(d, rows) THEN "raise" ELSE "insert"

\* INSERT ... ON CONFLICT (link, chunk_num) DO NOTHING, for one tuple
OnConflict(d, rows) == IF ConflictsWith(d, rows) THEN "nothing" ELSE "insert"

\* the table after a call that runs alone sends `data` and commits
RECURSIVE InsertAll(_, _)
InsertAll(rows, data) ==
    IF data = <<>> THEN rows
    ELSE InsertAll(IF OnConflict(Head(data), rows) = "insert"
                   THEN Append(rows, NewRow(Head(data))) ELSE rows,
                   Tail(data))

\* a connection in autocommit: what the statement has inserted stays
KeepInserted(rows, pending) == rows \o pending

\* conn.rollback(): the rows the transaction has inserted are gone
Rollback(rows, pending) == rows

\* another open transaction has inserted the same key: the insert waits for it
LockedByOther(w, d) ==
    \E o \in Writers \ {w} : Key(d) \in Keys(ppending[o])

\* the start of the call: the data is prepared, the transaction opens at the
\* first statement
PersistBegin(w, ps) ==
    /\ ppc[w] = "idle"
    /\ calls < MaxPersistCalls
    /\ ppc' = [ppc EXCEPT ![w] = "insert"]
    /\ ppapers' = [ppapers EXCEPT ![w] = ps]
    /\ pdata' = [pdata EXCEPT ![w] = PrepareData(ps)]
    /\ ppending' = [ppending EXCEPT ![w] = <<>>]
    /\ poutcome' = [poutcome EXCEPT ![w] = "none"]
    /\ calls' = calls + 1
    /\ UNCHANGED <<table, persisted, fillVars, fetchVars, chunkVars, restVars>>

\* execute_values sends one tuple of the multi-row INSERT; an exception of
\* the statement goes to
\* except Exception as e: conn.rollback(); print(f"Commit failed: {e}"); close
InsertRow(w) ==
    /\ ppc[w] = "insert"
    /\ pdata[w] # <<>>
    /\ ~LockedByOther(w, Head(pdata[w]))
    /\ LET d == Head(pdata[w])
           act == OnConflict(d, table \o ppending[w])
       IN  IF act = "raise"
           THEN /\ table' = Rollback(table, ppending[w])
                /\ ppending' = [ppending EXCEPT ![w] = <<>>]
                /\ pdata' = [pdata EXCEPT ![w] = <<>>]
                /\ ppc' = [ppc EXCEPT ![w] = "idle"]
                /\ poutcome' = [poutcome EXCEPT ![w] = "Commit failed: UniqueViolation"]
                /\ ppapers' = [ppapers EXCEPT ![w] = <<>>]
           ELSE /\ ppending' = [ppending EXCEPT ![w] =
                       IF act = "insert" THEN Append(@, NewRow(d)) ELSE @]
                /\ pdata' = [pdata EXCEPT ![w] = Tail(@)]
                /\ UNCHANGED <<table, ppc, poutcome, ppapers>>
    /\ UNCHANGED <<calls, persisted, fillVars, fetchVars, chunkVars, restVars>>

\* conn.commit(); print("Commit successful"); close
PersistCommit(w) ==
    /\ ppc[w] = "insert"
    /\ pdata[w] = <<>>
    /\ table' = table \o ppending[w]
    /\ ppending' = [ppending EXCEPT ![w] = <<>>]
    /\ ppc' = [ppc EXCEPT ![w] = "idle"]
    /\ poutcome' = [poutcome EXCEPT ![w] = "Commit successful"]
    /\ persisted' = persisted \cup {ppapers[w]}
    /\ ppapers' = [ppapers EXCEPT ![w] = <<>>]
    /\ UNCHANGED <<pdata, calls, fillVars, fetchVars, chunkVars, restVars>>

\* the store fails the statement or the commit and the connection stays
\* open (a deadlock between two writers resolved against this one, a
\* constraint, a statement timeout):
\* except Exception as e: conn.rollback(); print(f"Commit failed: {e}"); close
PersistFail(w) ==
    /\ ppc[w] = "insert"
    /\ table' = Rollback(table, ppending[w])
    /\ ppending' = [ppending EXCEPT ![w] = <<>>]
    /\ pdata' = [pdata EXCEPT ![w] = <<>>]
    /\ ppc' = [ppc EXCEPT ![w] = "idle"]
    /\ poutcome' = [poutcome EXCEPT ![w] = "Commit failed: OperationalError"]
    /\ ppapers' = [ppapers EXCEPT ![w] = <<>>]
    /\ UNCHANGED <<calls, persisted, fillVars, fetchVars, chunkVars, restVars>>

\* the connection to the store is lost under the statement or the commit:
\* the server drops the transaction, psycopg2 marks the connection closed,
\* and in the handler conn.rollback() raises InterfaceError ("connection
\* already closed"), which leaves the call before anything is printed
PersistConnectionLost(w) ==
    /\ ppc[w] = "insert"
    /\ table' = Rollback(table, ppending[w])
    /\ ppending' = [ppending EXCEPT ![w] = <<>>]
    /\ pdata' = [pdata EXCEPT ![w] = <<>>]
    /\ ppc' = [ppc EXCEPT ![w] = "idle"]
    /\ poutcome' = [poutcome EXCEPT ![w] = "raised: InterfaceError"]
    /\ ppapers' = [ppapers EXCEPT ![w] = <<>>]
    /\ UNCHANGED <<calls, persisted, fillVars, fetchVars, chunkVars, restVars>>

(***************************************************************************)
(* generate_embeddings.py                                                  *)
(***************************************************************************)
TokenCeiling == 8100
TruncateWords == 500

\* the tokens cl100k_base makes of one word, at least one: a word of
\* 2000000 or more stands for a long word (a URL, a formula, a run of text
\* without blanks) of n \div 100000 tokens, every other word takes one
TokensOf(word) == IF word >= 2000000 THEN word \div 100000 ELSE 1

\* len(enc.encode(doc)); the words of one document of the model all take the
\* same number of tokens
TokenCount(doc) == IF doc = <<>> THEN 0 ELSE Len(doc) * TokensOf(doc[1])

\* doc_[:500], the head kept instead of the tail dropped
KeepHead(doc_) == SubSeq(doc_, 1, Min(Len(doc_), TruncateWords))

\* doc_[: len(doc_) - 500], a Python slice: a negative stop counts from the end
DropTail(doc_) ==
    LET stop == Len(doc_) - TruncateWords
        n == IF stop >= 0 THEN stop ELSE Len(doc_) + stop
    IN  SubSeq(doc_, 1, IF n < 0 THEN 0 ELSE n)

RECURSIVE truncate_docs(_)
truncate_docs(doc) ==
    IF TokenCount(doc) < TokenCeiling THEN doc ELSE truncate_docs(DropTail(doc))

\* the documents truncate_docs is called with: n words of t tokens each
DocWords == {0, 1, 2, 250, 251, 300, 499, 500, 501, 600, 8099, 8100, 8101,
             8600, 9000}
TokensPerWord == {1, 20, 30, 8100, 9000}
Doc(n, t) == [i \in 1..n |-> IF t = 1 THEN i ELSE 100000 * t + i]

\* the outermost call truncate_docs(doc)
TruncateCall(n, t) ==
    /\ tpc = "idle"
    /\ tpc' = "call"
    /\ tdoc' = Doc(n, t)
    /\ tcur' = Doc(n, t)
    /\ tpasses' = 0
    /\ UNCHANGED <<progVars, parseVars, extractVars, moreVars>>

\* the else branch of a call: the recursive call on the shortened document
TruncatePass ==
    /\ tpc = "call"
    /\ ~(TokenCount(tcur) < TokenCeiling)
    /\ tcur' = DropTail(tcur)
    /\ tpasses' = tpasses + 1
    /\ UNCHANGED <<tpc, tdoc>>
    /\ UNCHANGED <<progVars, parseVars, extractVars, moreVars>>

\* the then branch of a call: its argument is what every call returns
TruncateReturn ==
    /\ tpc = "call"
    /\ TokenCount(tcur) < TokenCeiling
    /\ tpc' = "returned"
    /\ UNCHANGED <<tdoc, tcur, tpasses>>
    /\ UNCHANGED <<progVars, parseVars, extractVars, moreVars>>

\* f"{paper.title} {paper.authors} {paper.content}"
DocOf(paper) == paper.title \o paper.authors \o paper.content

\* the embedding provider, an opaque function of the text: one vector per text
Embedding(doc) == <<"vec", doc>>

\* resp.data keeps the order of `input`
ReversedProviderResponse(input) == [i \in 1..Len(input) |-> Embedding(input[Len(input) + 1 - i])]

ProviderResponse(input) == [i \in 1..Len(input) |-> Embedding(input[i])]

\* SELECT title, link, authors, content, chunk_num FROM t WHERE embedding IS NULL
RECURSIVE SelectNullEmbedding(_)
SelectNullEmbedding(rows) ==
    IF rows = <<>> THEN <<>>
    ELSE LET t == Head(rows)
             rest == SelectNullEmbedding(Tail(rows))
         IN  IF t.embedding = NULL
             THEN <<[title |-> t.title, link |-> t.link, authors |-> t.authors,
                     content |-> t.content, chunk_num |-> t.chunk_num]>> \o rest
             ELSE rest

NullCount(rows) == Cardinality({i \in 1..Len(rows) : rows[i].embedding = NULL})

\* zip(papers, embeds) mogrified into VALUES (embedding, link, chunk_num)
UpdateValues(ps, es) ==
    [i \in 1..Min(Len(ps), Len(es)) |->
        [embedding |-> es[i], link |-> ps[i].link, chunk_num |-> ps[i].chunk_num]]

MatchLinkOnly(t, v) == t.link = v.link

\* WHERE t.link = v.link AND t.chunk_num = v.chunk_num
UpdateMatch(t, v) == t.link = v.link /\ t.chunk_num = v.chunk_num

\* UPDATE t SET embedding = v.embedding FROM (VALUES ...) AS v WHERE ...
UpdateTable(rows, vals) ==
    [i \in 1..Len(rows) |->
        LET hits == {j \in 1..Len(vals) : UpdateMatch(rows[i], vals[j])}
        IN  IF hits = {} THEN rows[i]
            ELSE [rows[i] EXCEPT !.embedding = vals[CHOOSE j \in hits : TRUE].embedding]]

\* the rows an UPDATE with these values writes
Written(rows, vals) ==
    {i \in 1..Len(rows) : \E j \in 1..Len(vals) : UpdateMatch(rows[i], vals[j])}

\* create_db_cursor: the SELECT runs once; the client-side cursor holds its
\* whole result
CreateDbCursor(r) ==
    /\ bpc[r] = "idle"
    /\ cursor' = [cursor EXCEPT ![r] = SelectNullEmbedding(table)]
    /\ papers' = [papers EXCEPT ![r] = <<>>]
    /\ embeds' = [embeds EXCEPT ![r] = <<>>]
    /\ bpc' = [bpc EXCEPT ![r] = "fetch"]
    /\ UNCHANGED <<writes, storeVars, fetchVars, chunkVars, restVars>>

\* a loop without the break
NeverBreak(batch) == "embed"

\* if not papers: break (then cur.close(), conn.close())
AfterFetch(batch) == IF batch = <<>> THEN "done" ELSE "embed"

\* fetch_papers: cur.fetchmany(chunksize) takes the next rows off the result
\* (cur has run the SELECT, so the ProgrammingError branch is not taken; DEBUG
\* is False)
FetchPapers(r) ==
    /\ bpc[r] = "fetch"
    /\ LET n == Min(CHUNKSIZE, Len(cursor[r]))
           batch == SubSeq(cursor[r], 1, n)
       IN  /\ papers' = [papers EXCEPT ![r] = batch]
           /\ cursor' = [cursor EXCEPT ![r] = SubSeq(@, n + 1, Len(@))]
           /\ bpc' = [bpc EXCEPT ![r] = AfterFetch(batch)]
    /\ embeds' = [embeds EXCEPT ![r] = <<>>]
    /\ UNCHANGED <<writes, storeVars, fetchVars, chunkVars, restVars>>

\* create_embeddings: one provider call for the batch
CreateEmbeddings(r) ==
    /\ bpc[r] = "embed"
    /\ embeds' = [embeds EXCEPT ![r] =
           ProviderResponse([i \in 1..Len(papers[r]) |-> truncate_docs(DocOf(papers[r][i]))])]
    /\ bpc' = [bpc EXCEPT ![r] = "update"]
    /\ UNCHANGED <<cursor, papers, writes, storeVars, fetchVars, chunkVars, restVars>>

\* update_papers and conn.commit()
UpdatePapers(r) ==
    /\ bpc[r] = "update"
    /\ LET vals == UpdateValues(papers[r], embeds[r])
       IN  /\ table' = UpdateTable(table, vals)
           /\ writes' = [k \in KeySpace |->
                  writes[k] + Cardinality({i \in Written(table, vals) : Key(table[i]) = k})]
    /\ bpc' = [bpc EXCEPT ![r] = "fetch"]
    /\ papers' = [papers EXCEPT ![r] = <<>>]
    /\ embeds' = [embeds EXCEPT ![r] = <<>>]
    /\ UNCHANGED <<cursor, ppc, ppapers, pdata, ppending,
                   poutcome, calls, persisted, fetchVars, chunkVars, restVars>>

(***************************************************************************)
(* Scraper._fetch_page, wrapped by                                         *)
(* retrying.retry(wait_fixed=3000, stop_max_attempt_number=3,              *)
(*                retry_on_result=lambda x: x is None)                     *)
(* in arxiv_scraper.py and in gscholar_scraper.py.                         *)
(***************************************************************************)
stop_max_attempt_number == 3

\* what the remote end does with one requests.get
Outcomes == {"body", "empty_body", "status_404", "status_503", "transport_error"}

FetchArgs == [scraper : {"arxiv", "gscholar"}, url : {"listing", "paper"}, is_pdf : BOOLEAN]

IsHttpError(o) == o \in {"status_404", "status_503"}

\* one run of the body of _fetch_page: requests.get raises, or
\* response.raise_for_status() raises, or the content is returned, decoded
\* to a str or wrapped in a BytesIO
AttemptOf(o, is_pdf) ==
    CASE o = "transport_error" -> [has_exception |-> TRUE, value |-> "ConnectionError"]
      [] IsHttpError(o) -> [has_exception |-> TRUE, value |-> "HTTPError"]
      [] o = "empty_body" -> [has_exception |-> FALSE,
                              value |-> IF is_pdf THEN "BytesIO()" ELSE "''"]
      [] o = "body" -> [has_exception |-> FALSE,
                        value |-> IF is_pdf THEN "BytesIO(content)" ELSE "text"]

\* retry_on_result=lambda x: x is None
RetryOnResult(x) == x = "None"

\* a retry_on_exception that lets an HTTP error through
RetryUnlessHttpError(e) == e # "HTTPError"

\* no retry_on_exception is given: retrying retries on every exception
RetryOnException(e) == TRUE

\* Retrying.should_reject
ShouldReject(a) ==
    IF a.has_exception THEN RetryOnException(a.value) ELSE RetryOnResult(a.value)

\* a ceiling compared with > instead of >=
StopAfterCeiling(n) == n > stop_max_attempt_number

\* stop_max_attempt_number=3: stop once the attempt number has reached it
StopAfterAttempt(n) == n >= stop_max_attempt_number

\* the caller calls self._fetch_page(url, is_pdf)
FetchCall(a) ==
    /\ fpc = "idle"
    /\ fargs' = a
    /\ fpc' = "attempt"
    /\ attempt_number' = 1
    /\ requests' = 0
    /\ history' = <<>>
    /\ fresult' = "none"
    /\ UNCHANGED <<storeVars, fillVars, chunkVars, restVars>>

\* one pass of the loop of Retrying.call: the attempt, should_reject, stop,
\* and the fixed wait before the next pass
FetchAttempt(o) ==
    /\ fpc = "attempt"
    /\ requests' = requests + 1
    /\ history' = Append(history, o)
    /\ LET a == AttemptOf(o, fargs.is_pdf)
       IN  IF ~ShouldReject(a)
           THEN /\ fpc' = IF a.has_exception THEN "raised" ELSE "returned"
                /\ fresult' = a.value
                /\ UNCHANGED attempt_number
           ELSE IF StopAfterAttempt(attempt_number)
                THEN /\ fpc' = "raised"
                     /\ fresult' = IF a.has_exception THEN a.value ELSE "RetryError"
                     /\ UNCHANGED attempt_number
                ELSE /\ attempt_number' = attempt_number + 1
                     /\ UNCHANGED <<fpc, fresult>>
    /\ UNCHANGED <<fargs, storeVars, fillVars, chunkVars, restVars>>

\* the caller has the value or the exception; the method can be called again
FetchDone ==
    /\ fpc \in {"returned", "raised"}
    /\ fpc' = "idle"
    /\ fargs' = <<>>
    /\ attempt_number' = 0
    /\ requests' = 0
    /\ history' = <<>>
    /\ fresult' = "none"
    /\ UNCHANGED <<storeVars, fillVars, chunkVars, restVars>>

(***************************************************************************)
(* The chunking of insert_papers_to_db on one paper.                       *)
(***************************************************************************)
\* a content of n words, all different, word s (if any) with a code point
\* UTF-8 cannot encode
Content(n, s) == [i \in 1..n |-> IF i = s THEN -i ELSE i]

\* the scrape hands over a paper with n words of content
TakePaper(n, s) ==
    /\ cpc = "idle"
    /\ cin' = Content(n, s)
    /\ cpc' = "ready"
    /\ UNCHANGED <<cout, cdata, storeVars, fillVars, fetchVars, restVars>>

\* tokens = paper.content.split(); chunks = [...]
ChunkPaper ==
    /\ cpc = "ready"
    /\ cout' = Chunks(cin)
    /\ cdata' = PaperData([title |-> Title(1), link |-> "a", authors |-> Authors(1),
                            content |-> cin])
    /\ cpc' = "chunked"
    /\ UNCHANGED <<cin, storeVars, fillVars, fetchVars, restVars>>

(***************************************************************************)
(* main.py: prepare_context and retreive_relevant_docs.                    *)
(*                                                                         *)
(* The retrieval looks at a str in two ways only, len(s) and               *)
(* len(s.split(" ")), so here a str is a record of what it is (text), the  *)
(* number of " " in it (spaces) and its length (chars).  The words of a    *)
(* stored text are separated by single spaces, as " ".join leaves the      *)
(* chunks that insert_papers_to_db stores.                                 *)
(***************************************************************************)
MAX_WORDS_IN_CONTEXT == 30000

\* the literal parts of the f-string of prepare_context:
\* "Title of the paper:", ", Authors of the paper: ", ", Content of the paper: "
TemplateSpaces == 13
TemplateChars == 67

\* a text of w words of l characters each
Text(t, w, l) ==
    [text |-> t,
     spaces |-> IF w = 0 THEN 0 ELSE w - 1,
     chars |-> IF w = 0 THEN 0 ELSE w * l + w - 1]

\* len(s.split(" ")): one piece more than there are " " in s
SplitLen(s) == s.spaces + 1

\* len(s)
StrLen(s) == s.chars

\* f"Title of the paper:{title}, Authors of the paper: {authors}, Content of the paper: {content}"
prepare_context(title, authors, content) ==
    [text |-> <<"context", title.text, authors.text, content.text>>,
     spaces |-> TemplateSpaces + title.spaces + authors.spaces + content.spaces,
     chars |-> TemplateChars + title.chars + authors.chars + content.chars]

\* a stored row: a one-word title, a one-word author list, a content of w
\* words of l characters, and an embedding (one component stands for the
\* vector) or none
StoredRow(id, w, l, e) ==
    [id |-> id, title |-> Text(<<"title", id>>, 1, 5), authors |-> Text(<<"authors", id>>, 1, 6),
     content |-> Text(<<"content", id>>, w, l), embedding |-> e]

\* The rows a table can hold: short texts, full chunks of chunk_size words,
\* two long texts whose contexts have MAX_WORDS_IN_CONTEXT - 1 and
\* MAX_WORDS_IN_CONTEXT words, an empty content, and a row that the backfill
\* has not embedded yet.  The embeddings are all different.
Catalogue ==
    { StoredRow(1, 1, 4, <<9>>),
      StoredRow(2, chunk_size, 8, <<8>>),
      StoredRow(3, chunk_size, 8, <<7>>),
      StoredRow(4, chunk_size, 8, <<6>>),
      StoredRow(5, chunk_size, 8, <<5>>),
      StoredRow(6, 0, 0, <<4>>),
      StoredRow(7, MAX_WORDS_IN_CONTEXT - 14, 1, <<3>>),
      StoredRow(8, MAX_WORDS_IN_CONTEXT - 13, 1, <<2>>),
      StoredRow(9, 2, 4, NULL) }

\* the embedding of the question
QuestionEmbed == <<1>>

\* embedding <#> question_embed: pgvector's negative inner product, NULL for
\* a NULL embedding
NegInnerProduct(e, q) == IF e = NULL THEN NULL ELSE <<0 - e[1] * q[1]>>

\* ORDER BY ... (ascending): r sorts no later than s; NULL sorts last
SortsBefore(r, s, q) ==
    LET dr == NegInnerProduct(r.embedding, q)
        ds == NegInnerProduct(s.embedding, q)
    IN  \/ ds = NULL
        \/ dr # NULL /\ dr[1] <= ds[1]

RECURSIVE OrderBy(_, _)
OrderBy(rows, q) ==
    IF rows = {} THEN <<>>
    ELSE LET first == CHOOSE r \in rows : \A s \in rows : SortsBefore(r, s, q)
         IN  <<first>> \o OrderBy(rows \ {first}, q)

\* SELECT title, authors, content FROM t ORDER BY embedding <#> q LIMIT n
SelectTopN(rows, q, n) ==
    LET ordered == OrderBy(rows, q)
    IN  SubSeq(ordered, 1, Min(n, Len(ordered)))

\* context_ of a row of docs_
ContextOf(doc) == prepare_context(doc.title, doc.authors, doc.content)

\* a test of the running count alone
UnderBudgetSoFar(count, context_) == count < MAX_WORDS_IN_CONTEXT

\* if count_words + len(context_.split(" ")) < MAX_WORDS_IN_CONTEXT
FitsBudget(count, context_) == count + SplitLen(context_) < MAX_WORDS_IN_CONTEXT

\* a loop that passes over a row that does not fit
SkipRow(i, n) == i + 1

\* else: break
Break(i, n) == n

\* connect, the SELECT, fetchall; count_words = 0; docs = []
Retrieve(n) ==
    /\ rpc = "idle"
    /\ rn' = n
    /\ docs_' = SelectTopN(rstore, QuestionEmbed, n)
    /\ ri' = 0
    /\ docs' = <<>>
    /\ count_words' = 0
    /\ rpc' = "loop"
    /\ UNCHANGED <<rstore, storeVars, fillVars, fetchVars, chunkVars, jobVars, textVars>>

\* one pass of for doc in docs_
RetrieveStep ==
    /\ rpc = "loop"
    /\ ri < Len(docs_)
    /\ LET context_ == ContextOf(docs_[ri + 1])
       IN  IF FitsBudget(count_words, context_)
           THEN /\ docs' = Append(docs, context_)
                /\ count_words' = count_words + StrLen(context_)
                /\ ri' = ri + 1
           ELSE /\ ri' = Break(ri, Len(docs_))
                /\ UNCHANGED <<docs, count_words>>
    /\ UNCHANGED <<rpc, rstore, rn, docs_, storeVars, fillVars, fetchVars, chunkVars, jobVars, textVars>>

\* the loop is over: cur.close(); conn.close(); return docs
RetrieveReturn ==
    /\ rpc = "loop"
    /\ ri = Len(docs_)
    /\ rpc' = "returned"
    /\ UNCHANGED <<rstore, rn, docs_, ri, docs, count_words,
                   storeVars, fillVars, fetchVars, chunkVars, jobVars, textVars>>

(***************************************************************************)
(* The jobs: main of arxiv_scraper.py and of gscholar_scraper.py (listing  *)
(* phase, then per batch the content phase and insert_papers_to_db), and   *)
(* main of generate_embeddings.py from its start to its end.               *)
(***************************************************************************)
JobKinds == {"arxiv", "gscholar", "embed"}

\* what RUN_SCRAPER / RUN_EMBED_GEN and ARXIV_TABLE can hold
RunValues == {<<>>, <<"">>, <<"true">>, <<"True">>, <<"TRUE">>, <<"false">>, <<"1">>}
TableValues == {<<>>, <<"">>, <<"papers">>}

\* str.lower() on the values above
Lower(v) == IF v \in {"True", "TRUE"} THEN "true" ELSE v

\* not os.getenv(name): the variable is unset or empty
Falsy(x) == x = <<>> \/ x = <<"">>

\* a gate that lets every non-empty value through
OpenWhenSet(x) == ~Falsy(x)

\* neither `if not os.getenv(...)` nor `elif os.environ[...].lower() != "true"`
\* returns
GateOpen(x) == ~Falsy(x) /\ Lower(x[1]) = "true"

\* PAGES = 4 in arxiv_scraper.main, PAGES = 1 in gscholar_scraper.main
PAGES(kind) == IF kind = "arxiv" THEN MaxPages ELSE 1

\* MAX_PROCESSES = 1 in arxiv_scraper.main, 2 in gscholar_scraper.main
MAX_PROCESSES(kind) == IF kind = "arxiv" THEN 1 ELSE 2

\* self.urls: one listing URL per page
Urls(kind) == [p \in 1..PAGES(kind) |-> p]

\* the paper references _parse_html makes of a page that lists n papers
ParsedPapers(page, n) == [k \in 1..n |-> <<page, k>>]

\* how the task of a listing page can end: _fetch_page raises after its
\* attempts, or the page is parsed and lists n papers
ListingOutcomes ==
    {[raises |-> TRUE, n |-> 0]} \cup {[raises |-> FALSE, n |-> k] : k \in 0..PerPage}

\* how the task of a paper can end: the text is extracted, _fetch_page raises
\* after its attempts, or PyPDF2 raises on what was fetched
ContentOutcomes == {"text", "HTTPError", "PdfReadError"}

\* how insert_papers_to_db can go: psycopg2.connect raises, execute_values or
\* commit raises on a connection that stays open, the connection is lost
\* under them (conn.rollback() raises in the handler), or the commit succeeds
PersistOutcomes == {"connect_raises", "insert_raises", "connection_lost", "commit"}

\* the tasks the pool's workers hold: the first MAX_PROCESSES of those handed
\* in and not ended; imap_unordered yields the result of the one that ends
\* first
InFlight(tasks, processes) == {tasks[k] : k \in 1..Min(processes, Len(tasks))}

RECURSIVE Without(_, _)
Without(tasks, t) ==
    IF tasks = <<>> THEN <<>>
    ELSE IF Head(tasks) = t THEN Tail(tasks)
    ELSE <<Head(tasks)>> \o Without(Tail(tasks), t)

\* papers[i : i + DB_INSERT_CHUNK]
BatchAt(papers_, i_) == SubSeq(papers_, i_ + 1, Min(i_ + DB_INSERT_CHUNK, Len(papers_)))

Range(seq) == {seq[k] : k \in 1..Len(seq)}

\* a persist call that loses its rows and reports success
LoseBatch(rows, scanned) == rows

\* the rows of the batch become visible at conn.commit()
CommitBatch(rows, scanned) == rows \cup {scanned[k].paper : k \in 1..Len(scanned)}

NoEffects == [fetches |-> 0, connects |-> 0, provider |-> 0, writes |-> 0]

\* the exception leaves main: the process ends with a traceback
Crash(e) ==
    /\ jpc' = "crashed"
    /\ jerror' = e

\* main up to the first call after the gate
MainStart ==
    /\ jpc = "start"
    /\ IF ~GateOpen(env.RUN)
       THEN /\ jpc' = "done"
            /\ UNCHANGED todo
       ELSE IF jkind = "embed"
       THEN /\ jpc' = "cursor"
            /\ UNCHANGED todo
       ELSE /\ jpc' = "listing"
            /\ todo' = Urls(jkind)
    /\ UNCHANGED <<jkind, env, jerror, failed, found, batch_i, scanned_papers, batch_log,
                   committed, effects, storeVars, fillVars, fetchVars, chunkVars, retrVars, textVars>>

\* ArxivScraper.scrape / GScholarScraper.scrape: imap_unordered yields the
\* result of one _fetch_papers task, or raises the task's exception into the
\* list comprehension, out of scrape and out of main
ListingTask(page, out) ==
    /\ jpc = "listing"
    /\ page \in InFlight(todo, MAX_PROCESSES(jkind))
    /\ effects' = [effects EXCEPT !.fetches = @ + 1]
    /\ IF out.raises
       THEN /\ Crash("HTTPError")
            /\ failed' = failed \cup {[phase |-> "listing", task |-> page]}
            /\ found' = <<>>
            /\ UNCHANGED <<todo, batch_i>>
       ELSE /\ found' = found \o ParsedPapers(page, out.n)
            /\ todo' = Without(todo, page)
            /\ jpc' = IF todo' = <<>> THEN "batch" ELSE "listing"
            /\ batch_i' = 0
            /\ UNCHANGED <<jerror, failed>>
    /\ UNCHANGED <<jkind, env, scanned_papers, batch_log, committed,
                   storeVars, fillVars, fetchVars, chunkVars, retrVars, textVars>>

\* for i in range(0, len(papers), DB_INSERT_CHUNK): the next batch, or the
\* end of main
BatchStart ==
    /\ jpc = "batch"
    /\ IF batch_i >= Len(found)
       THEN /\ jpc' = "done"
            /\ UNCHANGED <<todo, scanned_papers>>
       ELSE /\ jpc' = "content"
            /\ todo' = BatchAt(found, batch_i)
            /\ scanned_papers' = <<>>
    /\ UNCHANGED <<jkind, env, jerror, failed, found, batch_i, batch_log, committed, effects,
                   storeVars, fillVars, fetchVars, chunkVars, retrVars, textVars>>

\* PaperScraper.scrape: imap_unordered yields the paper of one
\* _fetch_paper_content task, or raises the task's exception into list(papers),
\* out of scrape and out of main
ContentTask(paper, out) ==
    /\ jpc = "content"
    /\ paper \in InFlight(todo, MAX_PROCESSES(jkind))
    /\ effects' = [effects EXCEPT !.fetches = @ + 1]
    /\ IF out # "text"
       THEN /\ Crash(out)
            /\ failed' = failed \cup {[phase |-> "content", task |-> paper]}
            /\ UNCHANGED <<todo, scanned_papers>>
       ELSE /\ scanned_papers' = Append(scanned_papers, [paper |-> paper, content |-> out])
            /\ todo' = Without(todo, paper)
            /\ jpc' = IF todo' = <<>> THEN "persist" ELSE "content"
            /\ UNCHANGED <<jerror, failed>>
    /\ UNCHANGED <<jkind, env, found, batch_i, batch_log, committed,
                   storeVars, fillVars, fetchVars, chunkVars, retrVars, textVars>>

\* helper.insert_papers_to_db(scanned_papers) as one step of main: connect,
\* the check of ARXIV_TABLE, then execute_values and commit, or the handler
\* (rollback and the printed failure, or the exception of rollback itself);
\* then the next turn of the loop
InsertPapersToDb(out) ==
    /\ jpc = "persist"
    /\ IF out = "connect_raises"
       THEN /\ Crash("OperationalError")
            /\ UNCHANGED <<effects, committed, batch_log, batch_i, scanned_papers>>
       ELSE IF Falsy(env.ARXIV_TABLE)
       THEN /\ Crash("ValueError")
            /\ effects' = [effects EXCEPT !.connects = @ + 1]
            /\ UNCHANGED <<committed, batch_log, batch_i, scanned_papers>>
       ELSE IF out = "connection_lost"
       THEN /\ Crash("InterfaceError")
            /\ effects' = [effects EXCEPT !.connects = @ + 1]
            /\ UNCHANGED <<committed, batch_log, batch_i, scanned_papers>>
       ELSE IF out = "insert_raises"
       THEN /\ effects' = [effects EXCEPT !.connects = @ + 1]
            /\ batch_log' = Append(batch_log, "Commit failed")
            /\ batch_i' = batch_i + DB_INSERT_CHUNK
            /\ scanned_papers' = <<>>
            /\ jpc' = "batch"
            /\ UNCHANGED <<committed, jerror>>
       ELSE /\ effects' = [effects EXCEPT !.connects = @ + 1, !.writes = @ + 1]
            /\ committed' = CommitBatch(committed, scanned_papers)
            /\ batch_log' = Append(batch_log, "Commit successful")
            /\ batch_i' = batch_i + DB_INSERT_CHUNK
            /\ scanned_papers' = <<>>
            /\ jpc' = "batch"
            /\ UNCHANGED jerror
    /\ UNCHANGED <<jkind, env, todo, failed, found,
                   storeVars, fillVars, fetchVars, chunkVars, retrVars, textVars>>

\* generate_embeddings.create_db_cursor: connect, the check of ARXIV_TABLE,
\* the SELECT, which finds n rows
JobCreateDbCursor(n) ==
    /\ jpc = "cursor"
    /\ effects' = [effects EXCEPT !.connects = @ + 1]
    /\ IF Falsy(env.ARXIV_TABLE)
       THEN /\ Crash("ValueError")
            /\ UNCHANGED todo
       ELSE /\ jpc' = "embedloop"
            /\ todo' = [k \in 1..n |-> k]
            /\ UNCHANGED jerror
    /\ UNCHANGED <<jkind, env, failed, found, batch_i, scanned_papers, batch_log, committed,
                   storeVars, fillVars, fetchVars, chunkVars, retrVars, textVars>>

\* one turn of the loop of generate_embeddings.main: fetch_papers, and either
\* the break and the end of main or create_embeddings, update_papers, commit
EmbedTurn ==
    /\ jpc = "embedloop"
    /\ IF todo = <<>>
       THEN /\ jpc' = "done"
            /\ UNCHANGED <<todo, effects>>
       ELSE /\ todo' = SubSeq(todo, Min(CHUNKSIZE, Len(todo)) + 1, Len(todo))
            /\ effects' = [effects EXCEPT !.provider = @ + 1, !.writes = @ + 1]
            /\ UNCHANGED jpc
    /\ UNCHANGED <<jkind, env, jerror, failed, found, batch_i, scanned_papers, batch_log,
                   committed, storeVars, fillVars, fetchVars, chunkVars, retrVars, textVars>>

(***************************************************************************)
(* SearchScraper._parse_html of scripts/arxiv_scraper.py ("arxiv"), of     *)
(* scripts/gscholar_scraper.py ("gscholar") and of the older               *)
(* script/gscholar_scraper.py ("script/gscholar").                         *)
(*                                                                         *)
(* A page is the sequence of its result cards.  A card has a title block   *)
(* and an author block; its link container (arxiv: p.list-title, scholar:  *)
(* div.gs_ggsd) is there with an anchor ("anchor"), there without one      *)
(* ("no_anchor"), for arxiv there without the span that find("span") looks *)
(* for ("no_span"), or not there ("no_block"); its citation block          *)
(* (div.gs_flb, scholar only) is there with a "Cited by n" anchor          *)
(* ("cited_by"), there without one ("no_cited_by"), or not there.          *)
(***************************************************************************)
Scrapers == {"arxiv", "gscholar", "script/gscholar"}

LinkStates(kind) ==
    IF kind = "arxiv" THEN {"anchor", "no_anchor", "no_span", "no_block"}
    ELSE {"anchor", "no_anchor", "no_block"}

CiteStates(kind) ==
    IF kind = "arxiv" THEN {"no_block"} ELSE {"cited_by", "no_cited_by", "no_block"}

\* the i-th card of a page
Card(i, link, cites) ==
    [title |-> i, link |-> link, href |-> 100 + i, cites |-> cites,
     count |-> 10 + i, authors |-> 200 + i]

Pages(kind) ==
    UNION {{[i \in 1..n |-> Card(i, ls[i], cs[i])] :
               ls \in [1..n -> LinkStates(kind)], cs \in [1..n -> CiteStates(kind)]} :
           n \in 0..MaxCards}

\* soup.find_all of the link containers and of the citation blocks
LinkElements(page) == SelectSeq(page, LAMBDA card : card.link # "no_block")
CitationElements(page) == SelectSeq(page, LAMBDA card : card.cites # "no_block")

\* __extract_links: arxiv `link.a["href"] if link.a else None` on
\* el.find("span"), scholar `link.a["href"]`
extract_links(kind, link) == IF link.link = "anchor" THEN <<link.href>> ELSE NULL

\* what __extract_links raises: None has no attribute a (arxiv, no span),
\* None is not subscriptable (scholar, no anchor)
LinkError(kind, link) ==
    IF kind = "arxiv"
    THEN IF link.link = "no_span" THEN "AttributeError" ELSE "none"
    ELSE IF link.link = "no_anchor" THEN "TypeError" ELSE "none"

\* __extract_citation_counts
extract_citation_counts(citation) ==
    IF citation.cites = "cited_by" THEN citation.count ELSE 0

\* ResearchPaper(...) as the scraper calls it: helper.ResearchPaper takes no
\* citation_count, the class of script/gscholar_scraper.py does
ConstructorError(kind) == IF kind = "gscholar" THEN "TypeError" ELSE "none"

Min3(a, b, c) == Min(a, Min(b, c))

\* `if link` of the arxiv comprehension; the scholar ones have no condition
Kept(kind, link) == kind # "arxiv" \/ link # NULL

parse_html(kind, page) ==
    LET titles == [i \in 1..Len(page) |-> page[i].title]
        link_els == LinkElements(page)
        link_errors == {LinkError(kind, link_els[i]) : i \in 1..Len(link_els)} \ {"none"}
        links == [i \in 1..Len(link_els) |-> extract_links(kind, link_els[i])]
        cite_els == CitationElements(page)
        citation_counts ==
            [i \in 1..Len(cite_els) |-> extract_citation_counts(cite_els[i])]
        authors == [i \in 1..Len(page) |-> page[i].authors]
        n == IF kind = "arxiv"
             THEN Min3(Len(titles), Len(links), Len(authors))
             ELSE Min(Len(titles), Min3(Len(links), Len(citation_counts), Len(authors)))
        zipped == [i \in 1..n |->
                      [title |-> titles[i], link |-> links[i], authors |-> authors[i],
                       citation_count |-> IF kind = "arxiv" THEN NULL
                                          ELSE <<citation_counts[i]>>]]
        kept == SelectSeq(zipped, LAMBDA paper : Kept(kind, paper.link))
    IN  IF link_errors # {}
        THEN [raised |-> CHOOSE e \in link_errors : TRUE, papers |-> <<>>]
        ELSE IF kept # <<>> /\ ConstructorError(kind) # "none"
        THEN [raised |-> ConstructorError(kind), papers |-> <<>>]
        ELSE [raised |-> "none", papers |-> kept]

\* one call of _parse_html
ParseHtml(kind, page) ==
    /\ lpc = "idle"
    /\ lkind' = kind
    /\ lpage' = page
    /\ LET r == parse_html(kind, page)
       IN  /\ lpc' = IF r.raised = "none" THEN "returned" ELSE "raised"
           /\ lerror' = r.raised
           /\ lpapers' = r.papers
    /\ UNCHANGED <<progVars, truncVars, extractVars, moreVars>>

(***************************************************************************)
(* The text loop of PaperScraper._fetch_paper_content, once PdfReader has  *)
(* read the PDF.  A character is its code point; 0 is NUL.                 *)
(***************************************************************************)
NUL == 0
REPLACEMENT == 65533
Chars == {NUL, 97}

PageTexts == UNION {[1..n -> Chars] : n \in 0..MaxPageChars}
Pdfs == UNION {[1..n -> PageTexts] : n \in 0..MaxPdfPages}

RECURSIVE Concat(_)
Concat(pages) ==
    IF pages = <<>> THEN <<>> ELSE Head(pages) \o Concat(Tail(pages))

\* text.replace("\x00", "\uFFFD")
Replace(text) == [i \in 1..Len(text) |-> IF text[i] = NUL THEN REPLACEMENT ELSE text[i]]

\* paper.content = ...: the scrapers of scripts/ replace, the older one
\* assigns text as it is
paper_content(kind, text) == IF kind = "script/gscholar" THEN text ELSE Replace(text)

ExtractText(kind, pdf) ==
    /\ xpc = "idle"
    /\ xpc' = "returned"
    /\ xkind' = kind
    /\ xpdf' = pdf
    /\ xtext' = paper_content(kind, Concat(pdf))
    /\ UNCHANGED <<progVars, truncVars, parseVars, moreVars>>

(***************************************************************************)
(* ArxivScraper.scrape and PaperScraper.scrape: a multiprocessing.Pool of  *)
(* max_processes or mp.cpu_count() workers, imap_unordered over the urls   *)
(* or papers, the results gathered as they are yielded.  The pool is a     *)
(* local of the call: when the call returns the last reference to it goes  *)
(* and its finalizer terminates the workers.                               *)
(***************************************************************************)
ScrapeKinds == {"listing", "content"}

\* the values of max_processes
MaxProcesses == {NULL} \cup {<<n>> : n \in 0..MaxProcs}

\* max_processes or mp.cpu_count()
Processes(max) == IF max = NULL \/ max[1] = 0 THEN CpuCount ELSE max[1]

\* how a task can end: the number of papers of its result (a content task
\* has one, its paper), or an exception
TaskOutcomes(kind) ==
    IF kind = "listing" THEN ListingOutcomes
    ELSE {[raises |-> TRUE, n |-> 0], [raises |-> FALSE, n |-> 1]}

\* a pool that is never collected: its workers stay
Leaked(workers, n) == workers

\* the pool is collected: its n workers are terminated
Finalized(workers, n) == workers - n

\* one paper of every non-empty result
FirstOfEach(done) ==
    LET nonempty == SelectSeq(done, LAMBDA d : d.n > 0)
    IN  [k \in 1..Len(nonempty) |-> <<nonempty[k].task, 1>>]

\* list(itertools.chain.from_iterable([paper for paper in papers if paper]))
RECURSIVE ChainNonEmpty(_)
ChainNonEmpty(done) ==
    IF done = <<>> THEN <<>>
    ELSE (IF Head(done).n > 0 THEN ParsedPapers(Head(done).task, Head(done).n) ELSE <<>>)
             \o ChainNonEmpty(Tail(done))

\* pool = mp.Pool(...); papers = pool.imap_unordered(task, items)
Scrape(kind, max, n) ==
    /\ qpc \in {"idle", "returned"}
    /\ qcalls < MaxScrapes
    /\ qcalls' = qcalls + 1
    /\ qpc' = "running"
    /\ qkind' = kind
    /\ qmax' = max
    /\ qtasks' = [k \in 1..n |-> k]
    /\ qwaiting' = [k \in 1..n |-> k]
    /\ qrunning' = {}
    /\ qdone' = <<>>
    /\ qreturn' = <<>>
    /\ qworkers' = qworkers + Processes(max)
    /\ UNCHANGED <<progVars, pureVars, crudVars>>

\* a worker without a task takes the next one of the queue
TakeTask ==
    /\ qpc = "running"
    /\ qwaiting # <<>>
    /\ Cardinality(qrunning) < Processes(qmax)
    /\ qrunning' = qrunning \cup {Head(qwaiting)}
    /\ qwaiting' = Tail(qwaiting)
    /\ UNCHANGED <<qpc, qcalls, qkind, qmax, qtasks, qdone, qreturn, qworkers>>
    /\ UNCHANGED <<progVars, pureVars, crudVars>>

\* a task ends and the iterator yields its result, or raises its exception
\* out of the call
TaskEnds(t, out) ==
    /\ qpc = "running"
    /\ t \in qrunning
    /\ qrunning' = qrunning \ {t}
    /\ IF out.raises
       THEN qpc' = "raised" /\ UNCHANGED qdone
       ELSE qdone' = Append(qdone, [task |-> t, n |-> out.n]) /\ UNCHANGED qpc
    /\ UNCHANGED <<qcalls, qkind, qmax, qtasks, qwaiting, qreturn, qworkers>>
    /\ UNCHANGED <<progVars, pureVars, crudVars>>

\* the iterator is exhausted: return the list
ScrapeReturn ==
    /\ qpc = "running"
    /\ qwaiting = <<>>
    /\ qrunning = {}
    /\ qpc' = "returned"
    /\ qreturn' = IF qkind = "listing" THEN ChainNonEmpty(qdone)
                  ELSE [k \in 1..Len(qdone) |-> qdone[k].task]
    /\ qworkers' = Finalized(qworkers, Processes(qmax))
    /\ UNCHANGED <<qcalls, qkind, qmax, qtasks, qwaiting, qrunning, qdone>>
    /\ UNCHANGED <<progVars, pureVars, crudVars>>

(***************************************************************************)
(* The example service: presentations/example.py Example.get,              *)
(* applications/example.py ExampleService, domains/example/repositories.py *)
(* ExampleRepository.get_by_id.                                            *)
(***************************************************************************)
Ids == 0..MaxIds

\* how the SELECT of get_by_id can go
QueryOutcomes == {"answers", "raises"}

\* domains/errors.py: NotFoundException and BadRequestException, two
\* exception classes neither of which derives from the other
IsInstance(ex, class) == ex = class \/ (class = "Exception" /\ ex # "none")

\* what the body of `with self.transactional_session() as session` raises:
\* the query fails; no row: get_by_id raises; a row: ExampleModel has no
\* to_dict
BodyRaises(id, rows, query) ==
    IF query = "raises" THEN "OperationalError"
    ELSE IF id \notin rows THEN "NotFoundException"
    ELSE "AttributeError"

\* except Exception as ex: ...; raise BadRequestException(error_message)
Reraised(ex) == IF IsInstance(ex, "Exception") THEN "BadRequestException" ELSE ex

\* the except clauses of Example.get, in their order
StatusOf(ex) ==
    IF IsInstance(ex, "NotFoundException") THEN 404
    ELSE IF IsInstance(ex, "BadRequestException") THEN 400
    ELSE IF IsInstance(ex, "Exception") THEN 500
    ELSE 200

\* GET /v1/examples/<example_id>: ExampleService().get_example_by_id enters
\* transactional_session, session = self.session_maker()
ExampleGet(id, rows) ==
    /\ hpc = "idle"
    /\ hpc' = "session"
    /\ hid' = id
    /\ hrows' = rows
    /\ hsession' = [hsession EXCEPT !.open = TRUE]
    /\ UNCHANGED <<hbody, hraised, hstatus>>
    /\ UNCHANGED <<progVars, pureVars, poolVars>>

\* the body of the with block: get_by_id and example.to_dict()
GetExampleById(query) ==
    /\ hpc = "session"
    /\ hpc' = "handler"
    /\ hbody' = BodyRaises(hid, hrows, query)
    /\ UNCHANGED <<hid, hrows, hraised, hsession, hstatus>>
    /\ UNCHANGED <<progVars, pureVars, poolVars>>

\* the exception is thrown into transactional_session at its yield: the
\* except clause rolls back and raises, the finally clause closes
SessionExit ==
    /\ hpc = "handler"
    /\ hpc' = "presentation"
    /\ hsession' = [hsession EXCEPT !.rollbacks = @ + 1, !.open = FALSE]
    /\ hraised' = Reraised(hbody)
    /\ UNCHANGED <<hid, hrows, hbody, hstatus>>
    /\ UNCHANGED <<progVars, pureVars, poolVars>>

\* the except clauses of Example.get make the response
Respond ==
    /\ hpc = "presentation"
    /\ hpc' = "responded"
    /\ hstatus' = StatusOf(hraised)
    /\ UNCHANGED <<hid, hrows, hbody, hraised, hsession>>
    /\ UNCHANGED <<progVars, pureVars, poolVars>>

(***************************************************************************)
(* Specifications.                                                         *)
(***************************************************************************)
StoreInit ==
    /\ table = <<>>
    /\ ppc = [w \in Writers |-> "idle"]
    /\ ppapers = [w \in Writers |-> <<>>]
    /\ pdata = [w \in Writers |-> <<>>]
    /\ ppending = [w \in Writers |-> <<>>]
    /\ poutcome = [w \in Writers |-> "none"]
    /\ calls = 0
    /\ persisted = {}

FillInit ==
    /\ bpc = [r \in Runs |-> "idle"]
    /\ cursor = [r \in Runs |-> <<>>]
    /\ papers = [r \in Runs |-> <<>>]
    /\ embeds = [r \in Runs |-> <<>>]
    /\ writes = [k \in KeySpace |-> 0]

FetchIdle ==
    /\ fpc = "idle"
    /\ fargs = <<>>
    /\ attempt_number = 0
    /\ requests = 0
    /\ history = <<>>
    /\ fresult = "none"

ChunkIdle ==
    /\ cpc = "idle"
    /\ cin = <<>>
    /\ cout = <<>>
    /\ cdata = <<>>

RetrIdle ==
    /\ rpc = "idle"
    /\ rstore = {}
    /\ rn = 0
    /\ docs_ = <<>>
    /\ ri = 0
    /\ docs = <<>>
    /\ count_words = 0

JobIdle ==
    /\ jkind = "arxiv"
    /\ env = [RUN |-> <<>>, ARXIV_TABLE |-> <<>>]
    /\ jpc = "start"
    /\ jerror = "none"
    /\ todo = <<>>
    /\ failed = {}
    /\ found = <<>>
    /\ batch_i = 0
    /\ scanned_papers = <<>>
    /\ batch_log = <<>>
    /\ committed = {}
    /\ effects = NoEffects

TruncIdle ==
    /\ tpc = "idle"
    /\ tdoc = <<>>
    /\ tcur = <<>>
    /\ tpasses = 0

ParseIdle ==
    /\ lpc = "idle"
    /\ lkind = "arxiv"
    /\ lpage = <<>>
    /\ lpapers = <<>>
    /\ lerror = "none"

ExtractIdle ==
    /\ xpc = "idle"
    /\ xkind = "arxiv"
    /\ xpdf = <<>>
    /\ xtext = <<>>

PoolIdle ==
    /\ qpc = "idle"
    /\ qcalls = 0
    /\ qkind = "listing"
    /\ qmax = <<>>
    /\ qtasks = <<>>
    /\ qwaiting = <<>>
    /\ qrunning = {}
    /\ qdone = <<>>
    /\ qreturn = <<>>
    /\ qworkers = 0

CrudIdle ==
    /\ hpc = "idle"
    /\ hid = 0
    /\ hrows = {}
    /\ hbody = "none"
    /\ hraised = "none"
    /\ hsession = [open |-> FALSE, commits |-> 0, rollbacks |-> 0]
    /\ hstatus = 0

TextIdle == TruncIdle /\ ParseIdle /\ ExtractIdle /\ PoolIdle /\ CrudIdle

RestIdle == RetrIdle /\ JobIdle /\ TextIdle

Init == StoreInit /\ FillInit /\ FetchIdle /\ ChunkIdle /\ RestIdle

Next ==
    \/ \E w \in Writers, ps \in PersistInputs : PersistBegin(w, ps)
    \/ \E w \in Writers : InsertRow(w)
    \/ \E w \in Writers : PersistCommit(w)
    \/ \E w \in Writers : PersistFail(w)
    \/ \E w \in Writers : PersistConnectionLost(w)
    \/ \E r \in Runs : CreateDbCursor(r)
    \/ \E r \in Runs : FetchPapers(r)
    \/ \E r \in Runs : CreateEmbeddings(r)
    \/ \E r \in Runs : UpdatePapers(r)

Spec == Init /\ [][Next]_vars

FetchNext ==
    \/ \E a \in FetchArgs : FetchCall(a)
    \/ \E o \in Outcomes : FetchAttempt(o)
    \/ FetchDone

\* Scraper._fetch_page alone
FetchSpec == Init /\ [][FetchNext]_vars

ChunkNext ==
    \/ \E n \in 0..MaxWords : \E s \in {0, 1, n} : TakePaper(n, s)
    \/ ChunkPaper

\* the chunking alone
ChunkSpec == Init /\ [][ChunkNext]_vars

\* The backfill over a backlog that two earlier calls of insert_papers_to_db
\* have committed, with one more call running alongside.
BacklogInit ==
    /\ \E p, q \in PersistInputs :
           /\ table = InsertAll(InsertAll(<<>>, PrepareData(p)), PrepareData(q))
           /\ persisted = {p, q}
    /\ ppc = [w \in Writers |-> "idle"]
    /\ ppapers = [w \in Writers |-> <<>>]
    /\ pdata = [w \in Writers |-> <<>>]
    /\ ppending = [w \in Writers |-> <<>>]
    /\ poutcome = [w \in Writers |-> "none"]
    /\ calls = MaxPersistCalls - 1
    /\ FillInit /\ FetchIdle /\ ChunkIdle /\ RestIdle

\* A started backfill run is a sequential process whose provider and store
\* answer every call: each of its steps is eventually taken.
BackfillSpec ==
    /\ BacklogInit /\ [][Next]_vars
    /\ \A r \in Runs : WF_vars(FetchPapers(r) \/ CreateEmbeddings(r) \/ UpdatePapers(r))

\* the retrieval over a table of any rows of the catalogue
RetrieveInit ==
    /\ StoreInit /\ FillInit /\ FetchIdle /\ ChunkIdle
    /\ rpc = "idle"
    /\ rstore \in SUBSET Catalogue
    /\ rn = 0
    /\ docs_ = <<>>
    /\ ri = 0
    /\ docs = <<>>
    /\ count_words = 0
    /\ JobIdle /\ TextIdle

RetrieveNext ==
    \/ \E n \in 0..MaxN : Retrieve(n)
    \/ RetrieveStep
    \/ RetrieveReturn

RetrieveSpec == RetrieveInit /\ [][RetrieveNext]_vars

\* one job, started under any environment
JobInit ==
    /\ StoreInit /\ FillInit /\ FetchIdle /\ ChunkIdle /\ RetrIdle /\ TextIdle
    /\ jkind \in JobKinds
    /\ env \in [RUN : RunValues, ARXIV_TABLE : TableValues]
    /\ jpc = "start"
    /\ jerror = "none"
    /\ todo = <<>>
    /\ failed = {}
    /\ found = <<>>
    /\ batch_i = 0
    /\ scanned_papers = <<>>
    /\ batch_log = <<>>
    /\ committed = {}
    /\ effects = NoEffects

JobNext ==
    \/ MainStart
    \/ \E page \in 1..MaxPages, out \in ListingOutcomes : ListingTask(page, out)
    \/ BatchStart
    \/ \E page \in 1..MaxPages, k \in 1..PerPage, out \in ContentOutcomes :
           ContentTask(<<page, k>>, out)
    \/ \E out \in PersistOutcomes : InsertPapersToDb(out)
    \/ \E n \in 0..(CHUNKSIZE + 1) : JobCreateDbCursor(n)
    \/ EmbedTurn

JobSpec == JobInit /\ [][JobNext]_vars

TruncNext ==
    \/ \E n \in DocWords, t \in TokensPerWord : TruncateCall(n, t)
    \/ TruncatePass
    \/ TruncateReturn

ParseNext == \E kind \in Scrapers : \E page \in Pages(kind) : ParseHtml(kind, page)

\* _parse_html alone
ParseSpec == Init /\ [][ParseNext]_vars

ExtractNext == \E kind \in Scrapers, pdf \in Pdfs : ExtractText(kind, pdf)

\* the text loop of _fetch_paper_content alone
ExtractSpec == Init /\ [][ExtractNext]_vars

PoolNext ==
    \/ \E kind \in ScrapeKinds, max \in MaxProcesses, n \in 0..MaxTasks :
           Scrape(kind, max, n)
    \/ TakeTask
    \/ \E t \in 1..MaxTasks : \E out \in TaskOutcomes(qkind) : TaskEnds(t, out)
    \/ ScrapeReturn

\* the scrape methods alone, called one after the other as main calls them
PoolSpec == Init /\ [][PoolNext]_vars

CrudNext ==
    \/ \E id \in Ids, rows \in SUBSET (1..MaxIds) : ExampleGet(id, rows)
    \/ \E query \in QueryOutcomes : GetExampleById(query)
    \/ SessionExit
    \/ Respond

\* one request to the example service
CrudSpec == Init /\ [][CrudNext]_vars

\* truncate_docs alone
TruncSpec == Init /\ [][TruncNext]_vars

(***************************************************************************)
(* The store under persist calls and backfill runs (Spec).                 *)
(***************************************************************************)

\* C1: after any sequence of insert_papers_to_db calls, repeated or
\* interleaved by concurrent writers, the table holds at most one row for
\* every (link, chunk_num) pair.
AtMostOneRowPerKey ==
    \A i, j \in 1..Len(table) : i # j => Key(table[i]) # Key(table[j])

\* two calls on the same papers have both committed, and the table holds the
\* paper's two chunks
SamePapersCommittedTwice ==
    /\ calls = 2
    /\ persisted = {<<PaperA>>}
    /\ \A w \in Writers : ppc[w] = "idle" /\ poutcome[w] = "Commit successful"
    /\ Len(table) = 2

\* C2: a call on papers that an earlier call has committed leaves the table
\* as it is (rows, content, embeddings) and prints "Commit successful"; it
\* ends otherwise only when the store itself fails under it.
PersistIdempotent ==
    [][\A w \in Writers :
          (ppc[w] = "insert" /\ ppc'[w] = "idle" /\ ppapers[w] \in persisted)
          => /\ table' = table
             /\ poutcome'[w] \in {"Commit successful", "Commit failed: OperationalError",
                                 "raised: InterfaceError"}]_vars

\* a second call on committed papers has sent all its tuples, none was
\* inserted, and a row it met already carries an embedding
ReplayAboutToCommit ==
    \E w \in Writers :
        /\ ppc[w] = "insert"
        /\ ppapers[w] \in persisted
        /\ ppapers[w] = <<PaperA>>
        /\ pdata[w] = <<>>
        /\ ppending[w] = <<>>
        /\ \E i \in 1..Len(table) : table[i].link = "a" /\ table[i].embedding # NULL

\* C4: given a provider and a store that answer every call, a started backfill
\* run reaches its end, and it leaves the loop at the first fetch that
\* returns no row and at no other point.
BackfillTerminates ==
    /\ \A r \in Runs : (bpc[r] = "fetch") ~> (bpc[r] = "done")
    /\ [][\A r \in Runs :
            /\ (bpc[r] = "fetch" /\ cursor[r] = <<>> /\ bpc'[r] # bpc[r]) => bpc'[r] = "done"
            /\ (bpc[r] # "done" /\ bpc'[r] = "done") => (bpc[r] = "fetch" /\ cursor[r] = <<>>)]_vars

\* one run alone has embedded a backlog of three rows, in two batches, and
\* has ended
RunEndedAfterTwoBatches ==
    /\ bpc["r1"] = "done" /\ bpc["r2"] = "idle"
    /\ Len(table) = 3
    /\ \A i \in 1..Len(table) : table[i].embedding # NULL

\* C5: no batch fetch_papers hands out holds a row whose embedding is non-null
\* in the table at the moment of the fetch, also with a second backfill run
\* at work.
FetchedRowsAreUnembedded ==
    [][\A r \in Runs :
          (bpc[r] = "fetch" /\ bpc'[r] = "embed")
          => \A j \in 1..Len(papers'[r]) : \A i \in 1..Len(table) :
                 Key(table[i]) = Key(papers'[r][j]) => table[i].embedding = NULL]_vars

\* C6: the embedding of a row is written exactly once, under any interleaving
\* of persist calls and backfill runs.
EmbeddingWrittenAtMostOnce ==
    \A k \in KeySpace : writes[k] <= 1

\* C7: in every write-back there are as many vectors as documents, vector i
\* of the batch is the provider's vector for the (title, authors, content)
\* document of row i of the batch, it is stored on that row, and no other row
\* is touched.
WriteBackIsPositional ==
    [][\A r \in Runs :
          (bpc[r] = "update" /\ bpc'[r] = "fetch")
          => /\ Len(embeds[r]) = Len(papers[r])
             /\ Len(table') = Len(table)
             /\ \A j \in 1..Len(papers[r]) :
                    /\ embeds[r][j] = Embedding(truncate_docs(DocOf(papers[r][j])))
                    /\ \E i \in 1..Len(table) : Key(table[i]) = Key(papers[r][j])
             /\ \A i \in 1..Len(table) :
                    LET js == {j \in 1..Len(papers[r]) : Key(papers[r][j]) = Key(table[i])}
                    IN  IF js = {}
                        THEN table'[i] = table[i]
                        ELSE /\ Cardinality(js) = 1
                             /\ \A j \in js :
                                    /\ table'[i] = [table[i] EXCEPT !.embedding = embeds[r][j]]
                                    /\ DocOf(papers[r][j]) = DocOf(table[i])]_vars

\* a write-back of a batch of two rows of one paper has happened
TwoChunkBatchWrittenBack ==
    /\ Len(table) >= 2
    /\ table[1].link = "a" /\ table[2].link = "a"
    /\ table[1].embedding = Embedding(DocOf(table[1]))
    /\ table[2].embedding = Embedding(DocOf(table[2]))
    /\ table[1].embedding # table[2].embedding

\* C8: every batch the loop writes back and commits strictly reduces the
\* number of rows whose embedding is null.
BatchReducesNullCount ==
    [][\A r \in Runs :
          (bpc[r] = "update" /\ bpc'[r] = "fetch")
          => NullCount(table') < NullCount(table)]_vars

\* C18: when the INSERT of a call raises, the call leaves the table as it
\* is, none of the rows the call had inserted is in it, and the call ends
\* with the failure printed and no exception raised to its caller.
FailedPersistLeavesStore ==
    [][\A w \in Writers :
          (ppc[w] = "insert" /\ ppc'[w] = "idle" /\ poutcome'[w] # "Commit successful")
          => /\ table' = table
             /\ Keys(ppending[w]) \cap Keys(table') = {}
             /\ ppending'[w] = <<>>
             /\ poutcome'[w] = "Commit failed: OperationalError"]_vars

\* C30: a step of insert_papers_to_db only adds rows to the table: every
\* row that was there is still there, with its title, authors, content and
\* embedding as they were, also when the call brings another content for its
\* (link, chunk_num), and every row the step adds has a null embedding.
PersistOnlyAdds ==
    [][fillVars' = fillVars
          => /\ Len(table') >= Len(table)
             /\ \A i \in 1..Len(table) : table'[i] = table[i]
             /\ \A i \in (Len(table) + 1)..Len(table') : table'[i].embedding = NULL]_vars

\* the link "a" was persisted twice, with two contents: its chunk 0 is the
\* one row of the first call, with the embedding the backfill gave it
ReingestedRowKept ==
    /\ {<<PaperA>>, <<PaperA2, PaperB>>} \subseteq persisted
    /\ \E i \in 1..Len(table) :
           /\ Key(table[i]) = <<"a", 0>>
           /\ table[i].title = Title(1)
           /\ table[i].embedding # NULL
    /\ \A w \in Writers : ppc[w] = "idle"

(***************************************************************************)
(* Scraper._fetch_page (FetchSpec).                                        *)
(***************************************************************************)
LastOutcome == history[Len(history)]

AtMostThreeRequests ==
    /\ requests <= 3
    /\ requests = Len(history)
    /\ fpc = "attempt" => attempt_number = requests + 1

\* a call that met a transport error, an HTTP error and a transport error
\* has made three requests and gives up
ThreeRequestsThenRaised ==
    /\ fpc = "raised"
    /\ history = <<"transport_error", "status_503", "transport_error">>
    /\ requests = 3
    /\ fresult = "ConnectionError"

\* C11: an attempt that returns an indeterminate result (None or an empty
\* body) is retried, and when the third attempt is indeterminate too the call
\* ends in a failure that hands no value (no empty body) to the caller.
EmptyBodyRetried ==
    (history # <<>> /\ AttemptOf(LastOutcome, fargs.is_pdf).value \in {"None", "''", "BytesIO()"})
    => IF Len(history) < 3
       THEN fpc = "attempt"
       ELSE fpc = "raised" /\ fresult \notin {"None", "''", "BytesIO()"}

(***************************************************************************)
(* retreive_relevant_docs (RetrieveSpec).                                  *)
(***************************************************************************)
\* the words of a list of contexts, counted as the loop counts them: a
\* context has no more words than pieces of split(" ")
RECURSIVE SumWords(_)
SumWords(contexts) ==
    IF contexts = <<>> THEN 0 ELSE SplitLen(Head(contexts)) + SumWords(Tail(contexts))

\* C12: for every table and every n, the contexts the retrieval has gathered
\* and returns hold no more than MAX_WORDS_IN_CONTEXT = 30000 words together.
ContextWithinBudget ==
    SumWords(docs) <= 30000

\* the call has returned one context of 29999 words and has left out the
\* row ranked after it
ReturnedJustUnderBudget ==
    /\ rpc = "returned"
    /\ Len(docs_) = 2
    /\ Len(docs) = 1
    /\ SumWords(docs) = 29999

\* C13: with n = 5 and 5 retrieved rows whose contexts are each under the
\* word budget, the call returns the contexts of all 5, in the order of the
\* SELECT.
AllFiveReturned ==
    (/\ rpc = "returned"
     /\ rn = 5
     /\ Len(docs_) = 5
     /\ \A i \in 1..5 : SplitLen(ContextOf(docs_[i])) < 30000)
    => docs = [i \in 1..5 |-> ContextOf(docs_[i])]

\* C14: the list the call builds and returns is a prefix of the rows of the
\* SELECT in rank order: string i is the whole context of row i, the rows are
\* in ascending order of embedding <#> question, and from the first row
\* turned down for the budget on no row is added.
ReturnedIsRankedPrefix ==
    /\ rpc # "idle" =>
          /\ docs_ = SelectTopN(rstore, QuestionEmbed, rn)
          /\ \A i, j \in 1..Len(docs_) : i < j => SortsBefore(docs_[i], docs_[j], QuestionEmbed)
    /\ Len(docs) <= ri
    /\ ri <= Len(docs_)
    /\ docs = [i \in 1..Len(docs) |-> ContextOf(docs_[i])]
    /\ Len(docs) < ri =>
          /\ ri = Len(docs_)
          /\ count_words + SplitLen(ContextOf(docs_[Len(docs) + 1])) >= 30000

\* the call has returned two contexts, has turned down the third row, and
\* has left out a fourth row that is short enough for the count it reached
ShortRowAfterRejectedLeftOut ==
    /\ rpc = "returned"
    /\ Len(docs_) = 4
    /\ Len(docs) = 2
    /\ count_words + SplitLen(ContextOf(docs_[4])) < 30000

\* C26: a pass of the loop accepts its row whenever the words gathered so
\* far and the words of the row's context together do not exceed 30000, a
\* total of exactly 30000 included, and turns it down only when the total is
\* greater than 30000.
AcceptedUpToBudget ==
    [][rpc = "loop" /\ ri < Len(docs_) /\ ri' # ri
          => LET context_ == ContextOf(docs_[ri + 1])
             IN  (SumWords(docs) + SplitLen(context_) <= 30000)
                     <=> (docs' = Append(docs, context_))]_vars

(***************************************************************************)
(* The jobs (JobSpec).                                                     *)
(***************************************************************************)
\* C15: when the task of one paper of the content phase fails (the fetch or
\* the extraction raises), PaperScraper.scrape still returns: the job goes on
\* to persist the batch, the failed paper in it with empty content.
ContentFailureContained ==
    \A f \in failed :
        f.phase = "content"
        => /\ jpc # "crashed"
           /\ jpc = "persist" =>
                  \E k \in 1..Len(scanned_papers) :
                      scanned_papers[k] = [paper |-> f.task, content |-> ""]

\* C16: when the task of one listing page fails with an exception, the
\* listing scrape still returns what the other pages list: the job goes on
\* and no exception leaves scrape.
ListingFailureContained ==
    \A f \in failed :
        f.phase = "listing" => jpc # "crashed" /\ jerror = "none"

\* the failures of single tasks: an exhausted fetch, a PDF that cannot be read
TaskErrors == {"HTTPError", "PdfReadError"}

\* C28: the failure of single URLs or papers does not stop a scrape job:
\* whatever tasks have failed, when the job has ended, and no failure of
\* the store ended it, it has returned from main after the persist call of
\* every batch of the papers it has found.
RunOutlivesTaskFailures ==
    (/\ failed # {}
     /\ jpc \in {"done", "crashed"}
     /\ jerror \in TaskErrors \cup {"none"})
    => /\ jpc = "done"
       /\ Len(batch_log) * DB_INSERT_CHUNK >= Len(found)

\* C29: a failure of the persist call of a batch, a statement the store
\* turns down or the loss of the connection, stays within the batch: every
\* batch main has left behind had exactly one persist call, the failure
\* does not end the job, and the job returns only after the persist call of
\* the last batch.
PersistFailureContained ==
    /\ batch_i = Len(batch_log) * DB_INSERT_CHUNK
    /\ jpc = "crashed" => jerror # "InterfaceError"
    /\ jpc = "done" => Len(batch_log) * DB_INSERT_CHUNK >= Len(found)

\* the papers of the batches main has left behind
PapersBefore(n) == {found[k] : k \in 1..Min(n, Len(found))}

\* the batches are consecutive slices of at most DB_INSERT_CHUNK papers, and
\* the content phase works on the slice at i only
BatchesAreConsecutive ==
    /\ batch_i = Len(batch_log) * DB_INSERT_CHUNK
    /\ jpc \in {"content", "persist"} =>
          /\ Len(BatchAt(found, batch_i)) \in 1..DB_INSERT_CHUNK
          /\ Range(todo) \cup {scanned_papers[k].paper : k \in 1..Len(scanned_papers)}
                 = Range(BatchAt(found, batch_i))

\* C17 as stated: the papers are worked in consecutive batches of at most
\* DB_INSERT_CHUNK, and whenever the job works on a batch, or has crashed on
\* it, the papers of every batch before it are committed in the store.
BatchesBeforeAreCommitted ==
    /\ BatchesAreConsecutive
    /\ PapersBefore(batch_i) \subseteq committed

\* C17 as amended: the papers are worked in consecutive batches of at most
\* DB_INSERT_CHUNK, and whenever the job works on a batch, or has crashed on
\* it, the persist call of every batch before it has ended: the batch is
\* committed whole, or its call printed "Commit failed" and nothing of it is
\* in the store; nothing of the current or a later batch is in the store.
BatchesBeforeAreSettled ==
    /\ BatchesAreConsecutive
    /\ \A b \in 1..Len(batch_log) :
           LET batch == Range(BatchAt(found, (b - 1) * DB_INSERT_CHUNK))
           IN  IF batch_log[b] = "Commit successful"
               THEN batch \subseteq committed
               ELSE batch_log[b] = "Commit failed" /\ batch \cap committed = {}
    /\ committed \subseteq PapersBefore(batch_i)

\* the job has crashed in the content phase of its third batch, after the
\* first batch was committed and the persist call of the second failed
CrashedInThirdBatch ==
    /\ jpc = "crashed"
    /\ jerror = "PdfReadError"
    /\ batch_log = <<"Commit successful", "Commit failed">>
    /\ Len(found) > 2 * DB_INSERT_CHUNK
    /\ committed = Range(BatchAt(found, 0))

\* C19: a job started with its gate open and without ARXIV_TABLE ends with
\* the configuration error, and fetches no page, calls no provider and
\* writes nothing to the store before that.
ConfigErrorBeforeAnyWork ==
    (GateOpen(env.RUN) /\ Falsy(env.ARXIV_TABLE))
    => /\ effects.fetches = 0
       /\ effects.provider = 0
       /\ effects.writes = 0
       /\ jpc # "done"
       /\ jpc = "crashed" => jerror = "ValueError"

\* what a job whose gate is closed does: it returns from main with no fetch,
\* no connection, no provider call and no write
EndsAsNoOp ==
    /\ jpc \in {"start", "done"}
    /\ jerror = "none"
    /\ effects = NoEffects
    /\ committed = {}

\* C20 as stated: with RUN_SCRAPER / RUN_EMBED_GEN unset or of any value
\* other than "true", the job ends cleanly with no network request, no store
\* connection and no changed row.
NoOpUnlessExactlyTrue ==
    env.RUN # <<"true">> => EndsAsNoOp

\* C20 as amended: with the variable unset, empty, or of any value that is
\* not "true" in some letter case, the job ends cleanly with no network
\* request, no store connection and no changed row.
NoOpUnlessTrueInAnyCase ==
    env.RUN \notin {<<"true">>, <<"True">>, <<"TRUE">>} => EndsAsNoOp

\* a job started with RUN_... = "false" has returned from main
ReturnedOnFalse ==
    /\ env.RUN = <<"false">>
    /\ jpc = "done"

(***************************************************************************)
(* The truncation (TruncSpec).                                             *)
(***************************************************************************)

\* C21: for every document of more than 8100 tokens, truncate_docs
\* terminates (every pass removes at least one word, so the passes of a
\* call are never more than the words of its document), every truncation
\* pass leaves strictly fewer tokens than the pass before, and the returned
\* document has at most 8100 tokens.
TruncationShrinksAndEnds ==
    /\ [][tpasses' = tpasses + 1 /\ TokenCount(tdoc) > TokenCeiling
              => TokenCount(tcur') < TokenCount(tcur)]_vars
    /\ [](TokenCount(tdoc) > TokenCeiling
              => tpasses + Len(tcur) <= Len(tdoc))
    /\ [](tpc = "returned" /\ TokenCount(tdoc) > TokenCeiling
              => TokenCount(tcur) <= TokenCeiling)

\* a document of long words returned after several passes with words left
ReturnedAfterPasses ==
    /\ tpc = "returned"
    /\ TokenCount(tdoc) > TokenCeiling
    /\ tpasses >= 2
    /\ Len(tcur) > 0
    /\ TokenCount(tcur) > Len(tcur)

Linkless(page) == {i \in 1..Len(page) : page[i].link # "anchor"}

\* C22: for a page of k result cards of which m have no resolvable detail
\* link, _parse_html raises nothing and returns exactly k - m papers.
ParserDropsLinklessCards ==
    lpc # "idle" =>
        /\ lpc = "returned"
        /\ Len(lpapers) = Len(lpage) - Cardinality(Linkless(lpage))

\* C23: when a result card's citation block has no anchor containing
\* "Cited by", _parse_html raises nothing and the paper it builds for that
\* card has citation count 0.
NoCitedByGivesZero ==
    \A i \in 1..Len(lpage) :
        lpc # "idle" /\ lpage[i].cites = "no_cited_by" =>
            /\ lpc = "returned"
            /\ \A j \in 1..Len(lpapers) :
                   lpapers[j].title = lpage[i].title
                       => lpapers[j].citation_count = <<0>>

(***************************************************************************)
(* The text of a PDF (ExtractSpec).                                        *)
(***************************************************************************)

\* C24: the text _fetch_paper_content returns for a PDF is the page texts
\* concatenated in page order with every NUL replaced by U+FFFD, and holds
\* no NUL.
TextIsPagesWithoutNul ==
    xpc = "returned" =>
        /\ Len(xtext) = Len(Concat(xpdf))
        /\ \A i \in 1..Len(xtext) :
               /\ xtext[i] # NUL
               /\ xtext[i] = IF Concat(xpdf)[i] = NUL THEN REPLACEMENT
                             ELSE Concat(xpdf)[i]

(***************************************************************************)
(* The chunking (ChunkSpec).                                               *)
(***************************************************************************)
RECURSIVE Flatten(_)
Flatten(chunks) == IF chunks = <<>> THEN <<>> ELSE Head(chunks) \o Flatten(Tail(chunks))

CeilDiv(n, d) == IF n % d = 0 THEN n \div d ELSE n \div d + 1

\* C3 as stated: a content of L words gives ceil(L / 1000) chunks, and the
\* words of the chunks in chunk-index order are the original word sequence
\* exactly.
ChunksReconstructExactly ==
    cpc = "chunked"
    => /\ Len(cout) = CeilDiv(Len(cin), 1000)
       /\ Flatten(cout) = cin

\* C3 as amended: ceil(L / 1000) chunks, and the words of the chunks in
\* chunk-index order are the original words in their order, none lost or
\* repeated, each with its unencodable code points replaced by "?"; the
\* sequence is the original one exactly when it has no such code point.
ChunksReconstructEncoded ==
    cpc = "chunked"
    => LET words == Flatten(cout)
       IN  /\ Len(cout) = CeilDiv(Len(cin), 1000)
           /\ Len(words) = Len(cin)
           /\ \A i \in 1..Len(cin) :
                  words[i] = IF cin[i] < 0 THEN 1000000 - cin[i] ELSE cin[i]
           /\ (\A i \in 1..Len(cin) : cin[i] > 0) => words = cin

\* a content of 2001 words, the last one with an unencodable code point, has
\* been cut into three chunks
ThreeChunksWithReplacement ==
    /\ cpc = "chunked"
    /\ Len(cin) = 2001
    /\ cin[2001] < 0
    /\ Len(cout) = 3

\* the words of positions 1000 * i to 1000 * (i + 1) - 1, counted from 0, of a
\* content, as far as it has them
WordsOfChunk(content, i) ==
    [j \in 1..(Min(1000 * (i + 1), Len(content)) - 1000 * i) |-> content[1000 * i + j]]

RowsAreNumbered ==
    /\ Len(cdata) = CeilDiv(Len(cin), 1000)
    /\ \A c \in 1..Len(cdata) : cdata[c].chunk_num = c - 1
    /\ cin = <<>> => cdata = <<>>

\* C25 as stated: the rows made of one paper carry the chunk indexes 0, 1,
\* ..., k-1 without gap or repeat, the row of index i holds the words
\* 1000 * i to 1000 * (i + 1) - 1 of the content, and an empty content makes
\* no row.
RowsHoldExactWords ==
    cpc = "chunked"
    => /\ RowsAreNumbered
       /\ \A c \in 1..Len(cdata) : cdata[c].content = WordsOfChunk(cin, c - 1)

\* C25 as amended: the same indexes and the same word positions, each word
\* with its unencodable code points replaced by "?"; the words themselves
\* when the content has no such code point.
RowsHoldEncodedWords ==
    cpc = "chunked"
    => /\ RowsAreNumbered
       /\ \A c \in 1..Len(cdata) :
              LET ws == WordsOfChunk(cin, c - 1)
              IN  /\ Len(cdata[c].content) = Len(ws)
                  /\ \A j \in 1..Len(ws) :
                         cdata[c].content[j] = IF ws[j] < 0 THEN 1000000 - ws[j] ELSE ws[j]
       /\ (\A i \in 1..Len(cin) : cin[i] > 0)
              => \A c \in 1..Len(cdata) : cdata[c].content = WordsOfChunk(cin, c - 1)

\* a content of 1001 words has given the rows 0 and 1, the row 1 with
\* the one word left, a replaced one
SecondRowOfOneWord ==
    /\ cpc = "chunked"
    /\ Len(cin) = 1001
    /\ cin[1001] < 0
    /\ Len(cdata) = 2
    /\ cdata[2].chunk_num = 1
    /\ cdata[2].content = <<1001001>>


\* the chunks stored under a link, each with its index
ChunksUnder(l) ==
    {<<table[i].chunk_num, table[i].content>> : i \in {j \in 1..Len(table) : table[j].link = l}}

\* the chunks of one ingested paper
ChunksOf(paper) ==
    {<<PaperData(paper)[c].chunk_num, PaperData(paper)[c].content>> :
        c \in 1..Len(PaperData(paper))}

\* C36: after any sequence of persist calls, the chunk rows stored under a
\* link are the chunks of one single ingested version of the paper of that
\* link; chunks of two ingestions of the link are never mixed.
OneVersionPerLink ==
    \A l \in {table[i].link : i \in 1..Len(table)} :
        \E ps \in persisted : \E k \in 1..Len(ps) :
            ps[k].link = l /\ ChunksUnder(l) = ChunksOf(ps[k])

\* C35: at the moment a backfill run ends normally (its fetch returned no
\* row) the table holds no row with a NULL embedding, the rows that persist
\* calls committed during the run included.
RunEndLeavesNoNullRow ==
    [][\A r \in Runs :
           bpc[r] # "done" /\ bpc'[r] = "done" => NullCount(table') = 0]_vars

\* C34: the contexts retreive_relevant_docs returns come only from rows
\* whose embedding is not NULL, also when fewer than n rows of the table
\* have an embedding.
ContextsOnlyFromEmbeddedRows ==
    rpc = "returned" =>
        \A k \in 1..Len(docs) :
            /\ docs[k] = ContextOf(docs_[k])
            /\ docs_[k].embedding # NULL

\* the card of the page that a paper has all its fields from
FromOneCard(paper, card) ==
    /\ paper.title = card.title
    /\ paper.authors = card.authors
    /\ paper.link = (IF card.link = "anchor" THEN <<card.href>> ELSE NULL)
    /\ paper.citation_count \in
           {NULL, <<IF card.cites = "cited_by" THEN card.count ELSE 0>>}

\* C33: every paper _parse_html returns has its title, link, authors and
\* citation count from one and the same result card of the page, also when
\* a card of the page lacks its link block or its citation block.
FieldsFromOneCard ==
    lpc = "returned" =>
        \A k \in 1..Len(lpapers) :
            \E i \in 1..Len(lpage) : FromOneCard(lpapers[k], lpage[i])

(***************************************************************************)
(* The scrape methods (PoolSpec).                                          *)
(***************************************************************************)
\* how often x occurs in the list
Occurrences(x, list) == Cardinality({k \in 1..Len(list) : list[k] = x})

\* the number of papers the task of page t gave (0 when it has not ended)
PapersOfPage(t) ==
    IF \E k \in 1..Len(qdone) : qdone[k].task = t
    THEN (CHOOSE d \in Range(qdone) : d.task = t).n
    ELSE 0

\* C31: when a scrape call returns (no task has failed), every task handed
\* in has ended exactly once; the list scrapeListings returns holds each
\* paper of each page exactly once and nothing else, and the list
\* scrapeContents returns holds each paper handed in exactly once, in
\* whatever order the tasks ended.
ResultIsUnionOfTaskResults ==
    qpc = "returned" =>
        /\ \A t \in Range(qtasks) :
               Cardinality({k \in 1..Len(qdone) : qdone[k].task = t}) = 1
        /\ Len(qdone) = Len(qtasks)
        /\ qkind = "listing" =>
               /\ \A t \in 1..MaxTasks + 1 : \A k \in 1..PerPage + 1 :
                      Occurrences(<<t, k>>, qreturn) =
                          IF t \in Range(qtasks) /\ k <= PapersOfPage(t) THEN 1 ELSE 0
               /\ \A i \in 1..Len(qreturn) :
                      qreturn[i][1] \in Range(qtasks) /\ qreturn[i][2] >= 1
        /\ qkind = "content" =>
               /\ Len(qreturn) = Len(qtasks)
               /\ \A t \in Range(qtasks) : Occurrences(t, qreturn) = 1

\* a listing call has returned whose tasks ended in another order than they
\* were handed in, one page of it empty and one with several papers
ReturnedOutOfOrder ==
    /\ qpc = "returned"
    /\ qkind = "listing"
    /\ \E i, j \in 1..Len(qdone) : i < j /\ qdone[i].task > qdone[j].task
    /\ \E i \in 1..Len(qdone) : qdone[i].n = 0
    /\ \E i \in 1..Len(qdone) : qdone[i].n > 1


\* the configured maximum of the call in progress, the number of cores when
\* none (None or 0) is configured
ConfiguredMax == IF qmax \in {<<n>> : n \in 1..MaxProcs + 1} THEN qmax[1] ELSE CpuCount

\* C32: during every scrape call of a run, the live worker processes and
\* the tasks executing at the same time are at most the configured maximum
\* (the number of cores when none is configured); between the calls, and
\* after the last, no worker of an earlier call is alive.
WorkersWithinMaximum ==
    /\ qpc \in {"running", "raised"} =>
           /\ qworkers <= ConfiguredMax
           /\ Cardinality(qrunning) <= ConfiguredMax
    /\ qpc \in {"idle", "returned"} => qworkers = 0 /\ qrunning = {}

\* the second call of a run, after a first one that had several workers,
\* with as many tasks executing as it has workers
SecondCallAtItsMaximum ==
    /\ qpc = "running"
    /\ qcalls = 2
    /\ qworkers = 2
    /\ Cardinality(qrunning) = 2


(***************************************************************************)
(* The example service (CrudSpec).                                         *)
(***************************************************************************)
\* C37: a lookup of an id that has no row ends with status 404: the
\* NotFoundException of the repository reaches Example.get as a
\* NotFoundException, the session is rolled back and closed, and nothing is
\* committed.
MissingIdEndsInNotFound ==
    hpc = "responded" /\ hbody = "NotFoundException" =>
        /\ hid \notin hrows
        /\ hraised = "NotFoundException"
        /\ hstatus = 404
        /\ hsession = [open |-> FALSE, commits |-> 0, rollbacks |-> 1]

=============================================================================
